---- MODULE Spec2Model ----
(***************************************************************************)
(* A model of structhole (src/structhole.c): main's search of the          *)
(* compilation units for the named aggregate, structprobe's walk of the    *)
(* member list (offset decoding, size resolution, type-name rendering,     *)
(* hole and cache-line accounting, summary) and the release of the         *)
(* debug-info session.                                                     *)
(*                                                                         *)
(* Dwarf_Word and size_t are 64 bits wide and unsigned is 32 bits wide     *)
(* (LP64 Linux, the __linux__ branch of the source).  TLC's integers stop  *)
(* at 2^31 - 1, so a machine word is modelled as its four 16-bit limbs,    *)
(* least significant first: <<5, 0, 0, 0>> is 5, <<0, 0, 64, 0>> is 2^38.  *)
(* The operators below are the C operators on such words, exact at the     *)
(* full width.                                                             *)
(***************************************************************************)
EXTENDS Integers, Sequences, FiniteSets, TLC

(***************************************************************************)
(* Machine words.                                                          *)
(***************************************************************************)
WordBits == 64

UnsignedBits == 32

\* A word is held as four limbs.
LimbBits == WordBits \div 4

Base == 2^LimbBits

Limbs == WordBits \div LimbBits

Zero == [i \in 1..Limbs |-> 0]

\* The word of a natural number below 2^31, and back.
ToWord(n) == [i \in 1..Limbs |-> IF i = 1 THEN n % Base ELSE IF i = 2 THEN n \div Base ELSE 0]

ToNat(w) == w[1] + Base * w[2]

\* Limb m of w, 0 outside the word.
Limb(w, m) == IF m \in 1..Limbs THEN w[m] ELSE 0

\* w << k and w >> k on a Dwarf_Word, for 0 <= k < WordBits.
Shl(w, k) ==
    LET q == k \div LimbBits
        r == k % LimbBits
    IN  [j \in 1..Limbs |->
            ((Limb(w, j - q) * 2^r) % Base) + ((Limb(w, j - q - 1) * 2^r) \div Base)]

Shr(w, k) ==
    LET q == k \div LimbBits
        r == k % LimbBits
    IN  [j \in 1..Limbs |->
            (Limb(w, j + q) \div 2^r) + ((Limb(w, j + q + 1) % 2^r) * 2^(LimbBits - r))]

\* Conversion of a word to an unsigned type of the given width (w % 2^bits).
Trunc(w, bits) ==
    [j \in 1..Limbs |->
        IF j * LimbBits <= bits THEN w[j]
        ELSE IF (j - 1) * LimbBits >= bits THEN 0
        ELSE w[j] % 2^(bits - (j - 1) * LimbBits)]

RECURSIVE CarryInto(_, _, _, _)
\* The carry into limb j of a + b + c0.
CarryInto(a, b, j, c0) ==
    IF j = 1 THEN c0
    ELSE (a[j - 1] + b[j - 1] + CarryInto(a, b, j - 1, c0)) \div Base

AddWith(a, b, c0) ==
    [j \in 1..Limbs |-> (a[j] + b[j] + CarryInto(a, b, j, c0)) % Base]

\* a + b and a - b modulo 2^64.
WAdd(a, b) == AddWith(a, b, 0)

WSub(a, b) == AddWith(a, [j \in 1..Limbs |-> Base - 1 - b[j]], 1)

\* a < b, a <= b as unsigned words: at the highest limb they differ in.
WLess(a, b) ==
    \E j \in 1..Limbs :
        /\ a[j] < b[j]
        /\ \A m \in (j + 1)..Limbs : a[m] = b[m]

WLeq(a, b) == a = b \/ WLess(a, b)

RECURSIVE BitOr(_, _, _)
\* x | y on naturals below 2^n.
BitOr(x, y, n) ==
    IF n = 0 \/ (x = 0 /\ y = 0) THEN 0
    ELSE IF x = 0 THEN y
    ELSE IF y = 0 THEN x
    ELSE (IF x % 2 = 1 \/ y % 2 = 1 THEN 1 ELSE 0) + 2 * BitOr(x \div 2, y \div 2, n - 1)

WOr(a, b) == [j \in 1..Limbs |-> BitOr(a[j], b[j], LimbBits)]

\* w / d and w % d for d a power of two (cachelinesize is one).
Log2(d) == CHOOSE k \in 0..30 : 2^k = d

WDiv(w, d) == Shr(w, Log2(d))

WMod(w, d) == Trunc(w, Log2(d))

(***************************************************************************)
(* get_uleb128.                                                            *)
(***************************************************************************)
\* The textbook base-128 encoding of a word: low 7 bits first, 0x80 set on
\* every byte but the last.  This is what the compiler wrote into the
\* location block; the program only decodes.
RECURSIVE Encode(_)
Encode(w) ==
    LET low  == ToNat(Trunc(w, 7))
        rest == Shr(w, 7)
    IN  IF rest = Zero THEN <<low>> ELSE <<low + 128>> \o Encode(rest)

RECURSIVE uleb_loop_shift8(_, _, _, _)
\* The loop with the shift advanced by a whole byte instead of 7 bits.
uleb_loop_shift8(dat, i, shift, out) ==
    LET b    == dat[i]
        out2 == WOr(out, Shl(ToWord(b % 128), shift))
    IN  IF (b \div 128) % 2 = 0 THEN out2
        ELSE uleb_loop_shift8(dat, i + 1, shift + 8, out2)

RECURSIVE uleb_loop(_, _, _, _)
\* The while loop of get_uleb128: dat[i] is *dat.
uleb_loop(dat, i, shift, out) ==
    LET b    == dat[i]
        out2 == WOr(out, Shl(ToWord(b % 128), shift))
    IN  IF (b \div 128) % 2 = 0 THEN out2
        ELSE uleb_loop(dat, i + 1, shift + 7, out2)

\* *out = 0, then the loop.
get_uleb128(dat) == uleb_loop(dat, 1, 0, Zero)

VARIABLES leb_pc, leb_val, leb_dat, leb_out

lebvars == <<leb_pc, leb_val, leb_dat, leb_out>>

\* Values 0 .. MaxLebVal, and words up to the full 64 bits.
MaxLebVal == 300

LebVals ==
    {ToWord(n) : n \in 0..MaxLebVal}
        \cup {Shl(ToWord(1), k) : k \in {14, 21, 28, 38, 56, 63}}
        \cup {WSub(Zero, ToWord(n)) : n \in 1..2}
        \cup {WSub(Shl(ToWord(1), 63), ToWord(1))}

\* Bytes that may follow the operand in the block.
LebTails == {<<>>, <<255>>, <<0>>}

LebInit ==
    /\ leb_pc = "ready"
    /\ leb_val \in LebVals
    /\ \E tail \in LebTails : leb_dat = Encode(leb_val) \o tail
    /\ leb_out = Zero

Decode ==
    /\ leb_pc = "ready"
    /\ leb_out' = get_uleb128(leb_dat)
    /\ leb_pc' = "done"
    /\ UNCHANGED <<leb_val, leb_dat>>

LebIdle ==
    /\ leb_pc = "idle"
    /\ leb_val = Zero
    /\ leb_dat = <<>>
    /\ leb_out = Zero

(***************************************************************************)
(* Debug-info entries, as the provider (libdw) presents them.              *)
(***************************************************************************)
\* dwarf_diename() = NULL.
NoName == "(null)"

isstruct(dwtag) ==
    dwtag \in {"structure_type", "class_type", "interface_type"}

\* A type entry: its tag, its name, and whether dwarf_aggregate_size
\* succeeds on it (and with what).
Die(tag, name, hassize, size) ==
    [tag |-> tag, name |-> name, hassize |-> hassize, size |-> size]

\* A member's type: dies[1] is the entry DW_AT_type of the member refers to,
\* dies[i + 1] the entry DW_AT_type of dies[i] refers to.  The last entry
\* either has no DW_AT_type (end = "none") or has one that
\* dwarf_formref_die cannot resolve (end = "bad").
dwarf_hasattr_type(ch, i) == i < Len(ch.dies) \/ ch.end = "bad"

(***************************************************************************)
(* The type-name part of structprobe (lines 242-291).                      *)
(***************************************************************************)
\* sizeof(ptr_suffix)
SuffixSize == 32

\* Lines 278-279 with the cap one too high: the terminator lands past the
\* buffer.
cap_ptrlevel_hi(lvl) == IF lvl > SuffixSize - 1 THEN SuffixSize - 1 ELSE lvl

\* Lines 278-279.
cap_ptrlevel(lvl) == IF lvl > SuffixSize - 2 THEN SuffixSize - 2 ELSE lvl

\* Lines 280-283: the bytes written into ptr_suffix[0 .. lvl + 1].  str is
\* the C string the buffer then holds (up to its first NUL, within the
\* buffer); overrun says that a write fell outside ptr_suffix.
render_suffix(lvl) ==
    LET l == cap_ptrlevel(lvl)
    IN  [str     |-> [j \in 1..(IF l + 1 <= SuffixSize THEN l + 1 ELSE SuffixSize)
                          |-> IF j = 1 THEN " " ELSE "*"],
         overrun |-> l + 1 > SuffixSize - 1]

RECURSIVE ptr_loop(_, _, _, _, _)
\* The do-while of lines 252-275, one iteration with type_die = ch.dies[i].
ptr_loop(ch, i, lvl, tag, ign) ==
    LET t    == ch.dies[i].tag
        lvl2 == IF t = "pointer_type" THEN lvl + 1 ELSE lvl
        tag2 == IF t = "pointer_type" THEN tag
                ELSE IF isstruct(t) THEN "struct "
                ELSE IF t = "enumeration_type" THEN "enum "
                ELSE tag
        ign2 == IF t = "pointer_type" \/ isstruct(t) \/ t = "enumeration_type"
                THEN ign ELSE ign + 1
    IN  IF ~dwarf_hasattr_type(ch, i)
        THEN [i |-> i, lvl |-> lvl2, tag |-> tag2, ign |-> ign2, fatal |-> FALSE]
        ELSE IF i = Len(ch.dies)
        THEN [i |-> i, lvl |-> lvl2, tag |-> tag2, ign |-> ign2, fatal |-> TRUE]
        ELSE IF ch.dies[i + 1].tag = "base_type"
        THEN [i |-> i + 1, lvl |-> lvl2, tag |-> tag2, ign |-> ign2, fatal |-> FALSE]
        ELSE ptr_loop(ch, i + 1, lvl2, tag2, ign2)

Anon(name) == IF name = NoName THEN "<anonymous>" ELSE name

\* Lines 243-291: the type tag, the identifier and the pointer suffix of a
\* member whose type is ch; ignored counts the "!!! XXX ignored pointer
\* qualifier" lines printed on the way, fatal is get_dwarf_attr failing.
resolve(ch) ==
    LET t == ch.dies[1].tag
        none == [str |-> <<>>, overrun |-> FALSE]
    IN  IF isstruct(t)
        THEN [type_tag |-> "struct ", type |-> Anon(ch.dies[1].name),
              ptr_suffix |-> none.str, overrun |-> FALSE, ignored |-> 0,
              fatal |-> FALSE]
        ELSE IF t = "enumeration_type"
        THEN [type_tag |-> "enum ", type |-> Anon(ch.dies[1].name),
              ptr_suffix |-> none.str, overrun |-> FALSE, ignored |-> 0,
              fatal |-> FALSE]
        ELSE IF t = "pointer_type"
        THEN LET r == ptr_loop(ch, 1, 0, "", 0)
                 s == render_suffix(r.lvl)
             IN  IF r.fatal
                 THEN [type_tag |-> r.tag, type |-> "", ptr_suffix |-> none.str,
                       overrun |-> FALSE, ignored |-> r.ign, fatal |-> TRUE]
                 ELSE [type_tag |-> r.tag, type |-> Anon(ch.dies[r.i].name),
                       ptr_suffix |-> s.str, overrun |-> s.overrun,
                       ignored |-> r.ign, fatal |-> FALSE]
        ELSE [type_tag |-> "", type |-> Anon(ch.dies[1].name),
              ptr_suffix |-> none.str, overrun |-> FALSE, ignored |-> 0,
              fatal |-> FALSE]

\* The number of '*' in a suffix, and of pointer entries in a chain.
Stars(str) == Cardinality({j \in DOMAIN str : str[j] = "*"})

PtrEntries(ch) == Cardinality({j \in DOMAIN ch.dies : ch.dies[j].tag = "pointer_type"})

VARIABLES ty_pc, ty_chain, ty_res

tyvars == <<ty_pc, ty_chain, ty_res>>

\* Chains of up to MaxPtrDepth pointer entries.
MaxPtrDepth == 32

PtrDie == Die("pointer_type", NoName, FALSE, Zero)

Terminals ==
    { Die("base_type", "int", TRUE, ToWord(4)),
      Die("structure_type", "foo", TRUE, ToWord(56)),
      Die("class_type", NoName, TRUE, ToWord(8)),
      Die("enumeration_type", "bar", TRUE, ToWord(4)) }

Repeat(x, n) == [j \in 1..n |-> x]

\* d pointer entries, a const qualifier after the first when qual, then the
\* terminal entry (none for an untyped pointer such as void *).
MkChain(d, qual, term, end) ==
    [dies |-> (IF d = 0 THEN <<>>
               ELSE <<PtrDie>>
                    \o (IF qual THEN <<Die("const_type", NoName, FALSE, Zero)>> ELSE <<>>)
                    \o Repeat(PtrDie, d - 1))
              \o term,
     end  |-> end]

TypeChains ==
    {MkChain(d, qual, <<t>>, end) :
        d \in 0..MaxPtrDepth, qual \in BOOLEAN, t \in Terminals, end \in {"none", "bad"}}
    \cup
    {MkChain(d, qual, <<>>, end) :
        d \in 1..MaxPtrDepth, qual \in BOOLEAN, end \in {"none", "bad"}}

NoRes ==
    [type_tag |-> "", type |-> "", ptr_suffix |-> <<>>, overrun |-> FALSE,
     ignored |-> 0, fatal |-> FALSE]

TyInit ==
    /\ ty_pc = "ready"
    /\ ty_chain \in TypeChains
    /\ ty_res = NoRes

Resolve ==
    /\ ty_pc = "ready"
    /\ ty_res' = resolve(ty_chain)
    /\ ty_pc' = "done"
    /\ UNCHANGED ty_chain

TyIdle ==
    /\ ty_pc = "idle"
    /\ ty_chain = MkChain(0, FALSE, <<Die("base_type", "int", TRUE, ToWord(4))>>, "none")
    /\ ty_res = NoRes

(***************************************************************************)
(* The program: main and structprobe.                                      *)
(***************************************************************************)
VARIABLES
    pc,           \* where the program is: "main", "nextcu", "die", "probe",
                  \* "member", "summary", "out", "exit"
    status,       \* the exit status, "running" until the process ends
    dw_open,      \* dwarf_begin returned a session
    nend,         \* calls of dwarf_end so far
    out,          \* what was printed to stdout, in order
    pointer_size, \* the global of line 67
    ncu, ndie,    \* compilation units and top-level entries read so far
    probed,       \* main called structprobe
    nchild,       \* children of the aggregate visited so far
    memdie,       \* structprobe's cursor: the child the loop is at
    structsize, lastoff, cline, members, nholes, memsz, holesz

progvars ==
    <<pc, status, dw_open, nend, out, pointer_size, ncu, ndie, probed, nchild,
      memdie, structsize, lastoff, cline, members, nholes, memsz, holesz>>

sessvars == <<dw_open, nend, pointer_size>>

scanvars == <<ncu, ndie, probed>>

accvars == <<nchild, memdie, structsize, lastoff, cline, members, nholes, memsz, holesz>>

vars == <<progvars, lebvars, tyvars>>

cachelinesize == 64

\* Bounds of the debug info read in one run.
MaxCUs == 2

MaxDies == 2

MaxChildren == 3

\* argv[1]
structname == "foo"

\* Top-level entries of a compilation unit.
TopDies ==
    [tag : {"structure_type", "class_type", "interface_type", "union_type", "base_type"},
     haschildren : BOOLEAN,
     name : {"foo", "bar", NoName}]

\* DW_FORM_block, block1, block2, block4.
BlockForms == {"block", "block1", "block2", "block4"}

\* The location attribute of a member: its form, whether dwarf_formblock
\* reads it, the opcode block.data[0] and the operand bytes from
\* block.data[1] on.
Loc(form, readable, op, data) ==
    [form |-> form, readable |-> readable, op |-> op, data |-> data]

BlockLoc(off) == Loc("block1", TRUE, "plus_uconst", Encode(off))

\* A child of the aggregate.  hastype: DW_AT_type is there and resolves
\* ("ok"), is missing ("none") or does not resolve ("bad").
Child(tag, name, hastype, type, loc) ==
    [tag |-> tag, name |-> name, hastype |-> hastype, type |-> type, loc |-> loc]

Chain(dies) == [dies |-> dies, end |-> "none"]

IntType == Chain(<<Die("base_type", "int", TRUE, ToWord(4))>>)

CharType == Chain(<<Die("base_type", "char", TRUE, ToWord(1))>>)

LongType == Chain(<<Die("base_type", "long", TRUE, ToWord(8))>>)

BlobType == Chain(<<Die("structure_type", "blob", TRUE, ToWord(56))>>)

\* A pointer without DW_AT_byte_size (as clang writes it): dwarf_aggregate_size
\* fails on it.
PtrType ==
    Chain(<<PtrDie, PtrDie, Die("structure_type", "foo", TRUE, ToWord(16))>>)

\* An entry that is neither sized nor a pointer.
FuncType == Chain(<<Die("subroutine_type", NoName, FALSE, Zero)>>)

\* 2^38: an offset 2^32 cache lines into the aggregate.
HugeOff == Shl(ToWord(1), 38)

Member(name, off, type) == Child("member", name, "ok", type, BlockLoc(off))

GoodMembers ==
    { Member("a", ToWord(0), IntType),
      Member("b", ToWord(4), CharType),
      Member("c", ToWord(8), LongType),
      Member("l", ToWord(0), LongType),
      Member("i", ToWord(4), IntType),
      Member("s", ToWord(8), BlobType),
      Member("p", ToWord(8), PtrType),
      Child("member", "z", "ok", CharType, Loc("block", TRUE, "constu", Encode(HugeOff))) }

BadMembers ==
    { Child("member", "m", "none", IntType, BlockLoc(ToWord(0))),
      Child("member", "m", "bad", IntType, BlockLoc(ToWord(0))),
      Child("member", "m", "ok", IntType, Loc("none", FALSE, "", <<0>>)),
      Child("member", "m", "ok", IntType, Loc("block2", FALSE, "plus_uconst", <<0>>)),
      Child("member", "m", "ok", IntType, Loc("block4", TRUE, "fbreg", <<0>>)),
      Child("member", "m", "ok", IntType, Loc("data1", TRUE, "", <<0>>)),
      Child("member", "f", "ok", FuncType, BlockLoc(ToWord(0))),
      Child("member", "q", "ok",
            [dies |-> <<PtrDie>>, end |-> "bad"], BlockLoc(ToWord(0))) }

OtherChildren ==
    { Child("structure_type", "nested", "none", IntType, Loc("none", FALSE, "", <<0>>)) }

Children == GoodMembers \cup BadMembers \cup OtherChildren

\* memdie before dwarf_child has filled it.
NoChild == Child("", NoName, "none", IntType, Loc("none", FALSE, "", <<0>>))

\* What an uninitialised Dwarf_Word on the stack may hold.
Garbage == {Zero, ToWord(8), WAdd(Shl(ToWord(1), 40), ToWord(8))}

\* msize is uninitialised at the top of every turn of the loop.  Only the
\* pointer branch of get_member_size leaves it so, and only there does the
\* value it holds range over Garbage.
UnsizedPointer(child) ==
    /\ child.tag = "member"
    /\ ~child.type.dies[1].hassize
    /\ child.type.dies[1].tag = "pointer_type"

Uninit(child) == IF UnsizedPointer(child) THEN Garbage ELSE {Zero}

\* What dwarf_aggregate_size reports for the aggregate.
StructSizes == {ToWord(16), ToWord(64)}

Init ==
    /\ pc = "main"
    /\ status = "running"
    /\ dw_open = FALSE
    /\ nend = 0
    /\ out = <<>>
    /\ pointer_size = 8
    /\ ncu = 0
    /\ ndie = 0
    /\ probed = FALSE
    /\ nchild = 0
    /\ memdie = NoChild
    /\ structsize = Zero
    /\ lastoff = Zero
    /\ cline = Zero
    /\ members = 0
    /\ nholes = 0
    /\ memsz = Zero
    /\ holesz = Zero
    /\ LebIdle
    /\ TyIdle

\* exit(ex) after printing the events evs.
Exit(ex, evs) ==
    /\ pc' = "exit"
    /\ status' = ex
    /\ out' = out \o evs

\* _dwarf_err (lines 77-97): print the message, exit(ex).
dwarf_err(ex, what) == Exit(ex, <<[k |-> "err", what |-> what]>>)

\* main, lines 368-393.
Main ==
    /\ pc = "main"
    /\ UNCHANGED <<lebvars, tyvars>>
    /\ UNCHANGED <<scanvars, accvars, nend>>
    /\ \/ \* argc < 3: usage()
          /\ Exit("EX_USAGE", <<[k |-> "usage"]>>)
          /\ UNCHANGED <<dw_open, pointer_size>>
       \/ \* open() fails, or dwarf_begin fails with DWARF_E_NO_REGFILE:
          \* err/errx(EX_USAGE), written to stderr
          /\ Exit("EX_USAGE", <<>>)
          /\ UNCHANGED <<dw_open, pointer_size>>
       \/ \* dwarf_begin fails otherwise
          /\ dwarf_err("EX_DATAERR", "dwarf_begin")
          /\ UNCHANGED <<dw_open, pointer_size>>
       \/ \* get_elf_pointer_size: ELFCLASS32, ELFCLASS64
          /\ dw_open' = TRUE
          /\ \E sz \in {4, 8} : pointer_size' = sz
          /\ pc' = "nextcu"
          /\ UNCHANGED <<status, out>>
       \/ \* get_elf_pointer_size: any other class, errx(EX_DATAERR)
          /\ dw_open' = TRUE
          /\ Exit("EX_DATAERR", <<>>)
          /\ UNCHANGED pointer_size

\* The head of the while loop of lines 394-407.
NextCU ==
    /\ pc = "nextcu"
    /\ UNCHANGED <<lebvars, tyvars>>
    /\ UNCHANGED <<sessvars, accvars, ndie, probed, status, out>>
    /\ \/ \* dwarf_nextcu != 0: no further unit
          /\ pc' = "out"
          /\ UNCHANGED ncu
       \/ \* dwarf_offdie = NULL, or the unit has no child: continue
          /\ ncu < MaxCUs
          /\ ncu' = ncu + 1
          /\ pc' = "nextcu"
       \/ \* the unit's first child
          /\ ncu < MaxCUs
          /\ ndie < MaxDies
          /\ ncu' = ncu + 1
          /\ pc' = "die"

\* One turn of the do-while of lines 410-421 on entry die.
ScanDie ==
    /\ pc = "die"
    /\ UNCHANGED <<lebvars, tyvars>>
    /\ ndie < MaxDies
    /\ UNCHANGED <<sessvars, accvars>>
    /\ \E die \in TopDies :
          IF /\ isstruct(die.tag)
             /\ die.haschildren
             /\ die.name # NoName
             /\ die.name = structname
          THEN \* structprobe, then goto out: nothing further is read, and
               \* the counts of what was read are dropped
               /\ pc' = "probe"
               /\ probed' = TRUE
               /\ ncu' = 0
               /\ ndie' = 0
               /\ UNCHANGED <<status, out>>
          ELSE /\ UNCHANGED <<probed, ncu>>
               /\ ndie' = ndie + 1
               /\ \/ \* dwarf_siblingof = 0
                     /\ ndie + 1 < MaxDies
                     /\ pc' = "die"
                     /\ UNCHANGED <<status, out>>
                  \/ \* dwarf_siblingof = 1
                     /\ pc' = "nextcu"
                     /\ UNCHANGED <<status, out>>
                  \/ \* dwarf_siblingof = -1
                     dwarf_err("EX_DATAERR", "dwarf_siblingof")

\* structprobe, lines 199-210.
ProbeEnter ==
    /\ pc = "probe"
    /\ UNCHANGED <<lebvars, tyvars>>
    /\ UNCHANGED <<sessvars, scanvars>>
    /\ lastoff' = Zero
    /\ cline' = Zero
    /\ members' = 0
    /\ nholes' = 0
    /\ memsz' = Zero
    /\ holesz' = Zero
    /\ LET hdr == [k |-> "struct", name |-> structname]
       IN  \/ \* dwarf_aggregate_size(structdie) = -1
              /\ Exit("EX_DATAERR", <<hdr, [k |-> "err", what |-> "dwarf_aggregate_size"]>>)
              /\ UNCHANGED <<structsize, nchild, memdie>>
           \/ \* dwarf_child fails
              /\ \E sz \in StructSizes : structsize' = sz
              /\ Exit("EX_DATAERR", <<hdr, [k |-> "XXX ???"]>>)
              /\ UNCHANGED <<nchild, memdie>>
           \/ \* dwarf_child: the first child
              /\ \E sz \in StructSizes : structsize' = sz
              /\ \E child \in Children : memdie' = child
              /\ nchild' = 1
              /\ pc' = "member"
              /\ out' = Append(out, hdr)
              /\ UNCHANGED status

\* get_member_offset (lines 132-159): the value returned and *off_out, or
\* the way the call ends the process instead: "fatal" for dwarf_err, "abort"
\* for the failed assert.  It returns -1 after printing "ZZZ!".
get_member_offset(m) ==
    IF m.loc.form = "none"
    THEN [exit |-> "fatal", rc |-> 0, off |-> Zero]
    ELSE IF m.loc.form \in BlockForms
    THEN IF ~m.loc.readable
         THEN [exit |-> "fatal", rc |-> 0, off |-> Zero]
         ELSE IF m.loc.op \notin {"plus_uconst", "constu"}
         THEN [exit |-> "abort", rc |-> 0, off |-> Zero]
         ELSE [exit |-> "no", rc |-> 0, off |-> get_uleb128(m.loc.data)]
    ELSE [exit |-> "no", rc |-> -1, off |-> Zero]

\* get_member_size (lines 161-172).  msize is what *msize_out holds on
\* return: the pointer branch returns pointer_size as the status and leaves
\* *msize_out as it was, uninitialised.
get_member_size(type_die, uninit) ==
    IF type_die.hassize
    THEN [exit |-> "no", rc |-> 0, msize |-> type_die.size]
    ELSE IF type_die.tag = "pointer_type"
    THEN [exit |-> "no", rc |-> pointer_size, msize |-> uninit]
    ELSE [exit |-> "fatal", rc |-> -1, msize |-> uninit]

\* Line 293: whether a hole is recorded before a member at off.
is_hole(off, last) == off # last

\* The hole measured from the start of the aggregate.
hole_bytes_from_start(off, last) == off

\* Lines 294 and 296: off - lastoff.
hole_bytes(off, last) == WSub(off, last)

\* Line 307: lastoff / cachelinesize > cline.
crosses(off, newlast, cl) == WLess(cl, WDiv(newlast, cachelinesize))

\* Line 309: the assignment to the unsigned cline.
new_cline(newlast) == Trunc(WDiv(newlast, cachelinesize), UnsignedBits)

\* The events a failure prints, and its exit status.
Fail(ex, evs) == [ok |-> FALSE, status |-> ex, evs |-> evs]

ErrEv(what) == [k |-> "err", what |-> what]

\* The body of the do-while for a child tagged member (lines 225-319), with
\* uninit what the uninitialised msize holds.
member_body(m, uninit) ==
    LET o   == get_member_offset(m)
        td  == m.type.dies[1]
        sz  == get_member_size(td, uninit)
        r   == resolve(m.type)
        ign == [j \in 1..r.ignored |-> [k |-> "ignored"]]
        off == o.off
        msize == sz.msize
        hole == IF is_hole(off, lastoff)
                THEN <<[k |-> "hole", bytes |-> hole_bytes(off, lastoff)]>>
                ELSE <<>>
        line == [k |-> "line",
                 type_name |-> <<r.type_tag, r.type, r.ptr_suffix>>,
                 mem_name |-> m.name, off |-> off, size |-> msize]
        newlast == WAdd(off, msize)
        cross == crosses(off, newlast, cline)
        ncl == IF cross THEN new_cline(newlast) ELSE cline
        cl == IF cross
              THEN <<[k |-> "cacheline", idx |-> ncl,
                      pos |-> Shl(ncl, Log2(cachelinesize)),
                      ago |-> ToNat(WMod(newlast, cachelinesize))]>>
              ELSE <<>>
    IN  IF m.hastype # "ok" THEN Fail("EX_DATAERR", <<ErrEv("get_dwarf_attr")>>)
        ELSE IF o.exit = "fatal" THEN Fail("EX_DATAERR", <<ErrEv("get_member_offset")>>)
        ELSE IF o.exit = "abort" THEN Fail("SIGABRT", <<>>)
        ELSE IF o.rc = -1 THEN Fail("EX_DATAERR", <<[k |-> "ZZZ!"], ErrEv("member")>>)
        ELSE IF sz.exit = "fatal" THEN Fail("EX_DATAERR", <<ErrEv("dwarf_aggregate_size")>>)
        ELSE IF sz.rc = -1 THEN Fail("EX_DATAERR", <<ErrEv("get_member_size")>>)
        ELSE IF r.fatal THEN Fail("EX_DATAERR", ign \o <<ErrEv("get_dwarf_attr")>>)
        ELSE [ok |-> TRUE, evs |-> ign \o hole \o <<line>> \o cl,
              members |-> members + 1,
              nholes |-> IF is_hole(off, lastoff) THEN nholes + 1 ELSE nholes,
              holesz |-> IF is_hole(off, lastoff)
                         THEN WAdd(holesz, hole_bytes(off, lastoff)) ELSE holesz,
              memsz |-> WAdd(memsz, msize),
              lastoff |-> newlast,
              cline |-> ncl]

\* The loop body for a child that is not a member, changed to count the
\* child all the same.
skip_body_counting(acc) == [acc EXCEPT !.members = acc.members + 1]

\* Lines 222-223: continue, the accumulators as they were.
skip_body(acc) == acc

\* One turn of the do-while of lines 212-322 on the child memdie, and the
\* dwarf_siblingof that ends it.
WalkChild ==
    /\ pc = "member"
    /\ UNCHANGED <<lebvars, tyvars>>
    /\ UNCHANGED <<sessvars, scanvars, structsize>>
    /\ \E uninit \in Uninit(memdie) :
          LET acc == [ok |-> TRUE, evs |-> <<>>, members |-> members,
                      nholes |-> nholes, holesz |-> holesz, memsz |-> memsz,
                      lastoff |-> lastoff, cline |-> cline]
              b == IF memdie.tag # "member"
                   THEN skip_body(acc)
                   ELSE member_body(memdie, uninit)
          IN  IF ~b.ok
              THEN /\ Exit(b.status, b.evs)
                   /\ members' = members + 1
                   /\ UNCHANGED <<nchild, memdie, lastoff, cline, nholes, memsz, holesz>>
              ELSE /\ members' = b.members
                   /\ nholes' = b.nholes
                   /\ holesz' = b.holesz
                   /\ memsz' = b.memsz
                   /\ lastoff' = b.lastoff
                   /\ cline' = b.cline
                   /\ \/ \* dwarf_siblingof = 0: memdie is the next child
                         /\ nchild < MaxChildren
                         /\ nchild' = nchild + 1
                         /\ \E child \in Children : memdie' = child
                         /\ pc' = "member"
                         /\ out' = out \o b.evs
                         /\ UNCHANGED status
                      \/ \* dwarf_siblingof = 1: no further child
                         /\ pc' = "summary"
                         /\ out' = out \o b.evs
                         /\ UNCHANGED <<status, nchild, memdie>>
                      \/ \* dwarf_siblingof = -1
                         /\ Exit("EX_DATAERR", b.evs \o <<ErrEv("dwarf_siblingof")>>)
                         /\ UNCHANGED <<nchild, memdie>>

\* structprobe, lines 324-330, and the return to main's goto out.
Summary ==
    /\ pc = "summary"
    /\ UNCHANGED <<lebvars, tyvars>>
    /\ out' = out \o
          << [k |-> "summary", size |-> structsize,
              cachelines |-> Trunc(WAdd(cline, ToWord(1)), UnsignedBits),
              members |-> members, summembers |-> memsz,
              holes |-> nholes, sumholes |-> holesz,
              last |-> WMod(lastoff, cachelinesize)],
             [k |-> "close"] >>
    /\ pc' = "out"
    /\ UNCHANGED <<sessvars, scanvars, accvars, status>>

\* main's exit with the dwarf_end call left out.
EndWithoutRelease ==
    /\ pc = "out"
    /\ UNCHANGED <<lebvars, tyvars>>
    /\ UNCHANGED <<dw_open, nend, pointer_size, scanvars, accvars>>
    /\ Exit("EX_OK", <<>>)

\* main, lines 424-428.
End ==
    /\ pc = "out"
    /\ UNCHANGED <<lebvars, tyvars>>
    /\ nend' = nend + 1
    /\ UNCHANGED <<dw_open, pointer_size, scanvars, accvars>>
    /\ \/ \* dwarf_end fails
          dwarf_err("EX_SOFTWARE", "dwarf_end")
       \/ Exit("EX_OK", <<>>)

Next ==
    \/ Main
    \/ NextCU
    \/ ScanDie
    \/ ProbeEnter
    \/ WalkChild
    \/ Summary
    \/ End

Spec == Init /\ [][Next]_vars

(***************************************************************************)
(* get_uleb128 and the type-name rendering on their own inputs.            *)
(***************************************************************************)
ProgIdle ==
    /\ pc = "idle"
    /\ status = "running"
    /\ dw_open = FALSE
    /\ nend = 0
    /\ out = <<>>
    /\ pointer_size = 8
    /\ ncu = 0
    /\ ndie = 0
    /\ probed = FALSE
    /\ nchild = 0
    /\ memdie = NoChild
    /\ structsize = Zero
    /\ lastoff = Zero
    /\ cline = Zero
    /\ members = 0
    /\ nholes = 0
    /\ memsz = Zero
    /\ holesz = Zero

InitLeb ==
    /\ ProgIdle
    /\ TyIdle
    /\ LebInit

NextLeb == Decode /\ UNCHANGED <<progvars, tyvars>>

SpecLeb == InitLeb /\ [][NextLeb]_vars

InitType ==
    /\ ProgIdle
    /\ LebIdle
    /\ TyInit

NextType == Resolve /\ UNCHANGED <<progvars, lebvars>>

SpecType == InitType /\ [][NextType]_vars

(***************************************************************************)
(* What was printed.                                                       *)
(***************************************************************************)
Events(kind) == SelectSeq(out, LAMBDA e : e.k = kind)

Lines == Events("line")

Last(seq) == seq[Len(seq)]

\* The end of a member: its offset plus its size.
EndOf(l) == WAdd(l.off, l.size)

UnsizedPointerNames == {c.name : c \in {m \in Children : UnsizedPointer(m)}}

\* Every member laid out so far has a size the provider computed (none went
\* through the pointer branch of get_member_size).
SizesComputed ==
    \A i \in DOMAIN out :
        out[i].k = "line" => out[i].mem_name \notin UnsizedPointerNames

(***************************************************************************)
(* C1.  Hole accounting: when the walk of a member list with non-decreasing *)
(* offsets is over, the hole-byte total is the sum over the members of      *)
(* max(0, o_i - (o_{i-1} + size_{i-1})), the running offset starting at 0,  *)
(* and the hole count is the number of members with                         *)
(* o_i > o_{i-1} + size_{i-1}; no hole is recorded for a member that starts *)
(* at or before the end of the previous one.  Stated for the walks in which *)
(* every size is one the provider computed.                                 *)
(***************************************************************************)
NonDecreasing(ls) == \A i \in 1..(Len(ls) - 1) : WLeq(ls[i].off, ls[i + 1].off)

PrevEnd(ls, i) == IF i = 1 THEN Zero ELSE EndOf(ls[i - 1])

Gap(ls, i) ==
    IF WLess(PrevEnd(ls, i), ls[i].off) THEN WSub(ls[i].off, PrevEnd(ls, i)) ELSE Zero

RECURSIVE GapSum(_, _)
GapSum(ls, n) == IF n = 0 THEN Zero ELSE WAdd(GapSum(ls, n - 1), Gap(ls, n))

GapCount(ls) == Cardinality({i \in 1..Len(ls) : WLess(PrevEnd(ls, i), ls[i].off)})

C1_HoleAccounting ==
    (pc = "summary" /\ NonDecreasing(Lines) /\ SizesComputed)
        => /\ holesz = GapSum(Lines, Len(Lines))
           /\ nholes = GapCount(Lines)

(***************************************************************************)
(* C2.  With cachelinesize 64, an aggregate whose members exactly fill 64   *)
(* bytes (the last member ends at offset 64) is summarised as               *)
(* "cachelines: 1" and "last cacheline: 0 bytes".                           *)
(***************************************************************************)
\* The members tile [0, total): each starts where the previous one ends.
Tiles(ls, total) ==
    /\ Len(ls) > 0
    /\ \A i \in 1..Len(ls) : ls[i].off = PrevEnd(ls, i)
    /\ EndOf(Last(ls)) = total

C2_Exact64OneCacheline ==
    \A i \in DOMAIN out :
        (out[i].k = "summary" /\ Tiles(Lines, ToWord(cachelinesize)))
            => /\ out[i].cachelines = ToWord(1)
               /\ out[i].last = Zero

(***************************************************************************)
(* C3.  A member whose type is a pointer on which the provider computes no  *)
(* aggregate size is laid out with the addressing width as its size: the    *)
(* size on its layout line is pointer_size.                                 *)
(***************************************************************************)
C3_PointerSizeIsAddressWidth ==
    \A i \in DOMAIN out :
        (out[i].k = "line" /\ out[i].mem_name \in UnsizedPointerNames)
            => out[i].size = ToWord(pointer_size)

(***************************************************************************)
(* C4.  As claimed: once dwarf_begin has returned a session, dwarf_end has  *)
(* been called exactly once whenever the process has ended, whatever the    *)
(* path.                                                                    *)
(***************************************************************************)
C4_ReleasedOnEveryExit == (pc = "exit" /\ dw_open) => nend = 1

(***************************************************************************)
(* C4, amended.  dwarf_end is called exactly once when main reaches its     *)
(* end (the type was reported, or no unit holds it), never more than once,  *)
(* and not at all when a fatal error ends the process.                      *)
(***************************************************************************)
C4_ReleasedOnReturnOnly ==
    /\ nend <= 1
    /\ (pc = "exit" /\ dw_open)
          => IF status \in {"EX_OK", "EX_SOFTWARE"} THEN nend = 1 ELSE nend = 0

C4_Witness ==
    /\ pc = "exit"
    /\ dw_open
    /\ probed
    /\ status = "EX_OK"
    /\ members > 0
    /\ nend = 1

(***************************************************************************)
(* C5.  When no top-level aggregate with children has the requested name,   *)
(* the run ends with the data-error status and has printed no struct        *)
(* declaration.  (A run in which dwarf_end itself fails is left aside.)     *)
(***************************************************************************)
C5_NotFoundIsDataError ==
    (pc = "exit" /\ dw_open /\ ~probed /\ status # "EX_SOFTWARE")
        => /\ status = "EX_DATAERR"
           /\ Events("struct") = <<>>

(***************************************************************************)
(* C6.  The cache-line indices annotated during one walk are strictly       *)
(* increasing: no index is annotated twice, none after a higher one.        *)
(* Stated for the walks in which every size is one the provider computed.   *)
(***************************************************************************)
C6_AnnotationsIncrease ==
    LET a == Events("cacheline")
    IN  SizesComputed => \A i \in 1..(Len(a) - 1) : WLess(a[i].idx, a[i + 1].idx)

(***************************************************************************)
(* C9.  As claimed: for struct { int a; char b; long c; } laid out at       *)
(* offsets 0, 4 and 8 the walk reports exactly one hole, of 7 bytes,        *)
(* between b and c, and the summary shows "holes: 1".                       *)
(***************************************************************************)
IsLine(l, type, name, off, size) ==
    /\ l.type_name = <<"", type, <<>>>>
    /\ l.mem_name = name
    /\ l.off = ToWord(off)
    /\ l.size = ToWord(size)

Scenario9 ==
    /\ Len(Events("summary")) = 1
    /\ Len(Lines) = 3
    /\ IsLine(Lines[1], "int", "a", 0, 4)
    /\ IsLine(Lines[2], "char", "b", 4, 1)
    /\ IsLine(Lines[3], "long", "c", 8, 8)

\* Exactly one hole, of n bytes, printed between the lines of b and c.
OneHoleBetweenBC(n) ==
    /\ Events("hole") = <<[k |-> "hole", bytes |-> ToWord(n)]>>
    /\ \E i \in DOMAIN out :
          /\ i > 1
          /\ i < Len(out)
          /\ out[i].k = "hole"
          /\ out[i - 1] = Lines[2]
          /\ out[i + 1] = Lines[3]

C9_OneHoleOf7 ==
    Scenario9 => /\ OneHoleBetweenBC(7)
                 /\ Events("summary")[1].holes = 1

(***************************************************************************)
(* C9, amended.  The one hole, between b and c, is of 3 bytes: c starts at  *)
(* 8 and b ends at 5.  The summary shows "holes: 1" and "sum holes: 3".     *)
(***************************************************************************)
C9_OneHoleOf3 ==
    Scenario9 => /\ OneHoleBetweenBC(3)
                 /\ Events("summary")[1].holes = 1
                 /\ Events("summary")[1].sumholes = ToWord(3)

C9_Witness == Scenario9 /\ pc = "exit" /\ status = "EX_OK"

(***************************************************************************)
(* C10.  A turn of the walk on a child whose tag is not member prints       *)
(* nothing and leaves the member count, the hole count, the member-byte and *)
(* hole-byte totals, the running offset and the cache-line index as they    *)
(* were; the walk goes on to the next sibling, ends when there is none, and *)
(* a failing dwarf_siblingof is fatal.                                      *)
(***************************************************************************)
C10_SkipLeavesAccounting ==
    [][ (pc = "member" /\ memdie.tag # "member")
          => /\ members' = members
             /\ nholes' = nholes
             /\ memsz' = memsz
             /\ holesz' = holesz
             /\ lastoff' = lastoff
             /\ cline' = cline
             /\ \/ pc' = "member" /\ out' = out /\ nchild' = nchild + 1
                \/ pc' = "summary" /\ out' = out
                \/ /\ pc' = "exit"
                   /\ status' = "EX_DATAERR"
                   /\ out' = Append(out, ErrEv("dwarf_siblingof")) ]_vars

\* The walk ended on a child that is not a member, after two members.
C10_Witness ==
    /\ pc = "summary"
    /\ memdie.tag # "member"
    /\ members = 2
    /\ nchild = 3
    /\ lastoff # Zero

(***************************************************************************)
(* C7.  As claimed: the suffix rendered for a pointer-typed member whose    *)
(* chain holds d pointer entries has exactly min(d, 29) '*' and stays       *)
(* within ptr_suffix.                                                       *)
(***************************************************************************)
Min(a, b) == IF a < b THEN a ELSE b

Rendered == ty_pc = "done" /\ ty_chain.dies[1].tag = "pointer_type" /\ ~ty_res.fatal

C7_StarsCappedAt29 ==
    Rendered => /\ Stars(ty_res.ptr_suffix) = Min(PtrEntries(ty_chain), 29)
                /\ ~ty_res.overrun

(***************************************************************************)
(* C7, amended.  The suffix has exactly min(d, 30) '*': a space, at most    *)
(* sizeof(ptr_suffix) - 2 = 30 stars and the terminator, 32 bytes at most,  *)
(* so no write falls outside the 32-byte ptr_suffix.                        *)
(***************************************************************************)
C7_StarsCappedAt30 ==
    Rendered => /\ Stars(ty_res.ptr_suffix) = Min(PtrEntries(ty_chain), 30)
                /\ ty_res.ptr_suffix[1] = " "
                /\ Len(ty_res.ptr_suffix) + 1 <= SuffixSize
                /\ ~ty_res.overrun

C7_Witness ==
    /\ Rendered
    /\ PtrEntries(ty_chain) > 30
    /\ Stars(ty_res.ptr_suffix) = 30

(***************************************************************************)
(* C8.  get_uleb128 on the base-128 encoding of a word v (low 7 bits per    *)
(* byte, least significant group first, 0x80 set on every byte but the      *)
(* last) yields v, whatever follows the encoding in the block.              *)
(***************************************************************************)
C8_DecodeEncode == leb_pc = "done" => leb_out = leb_val

\* The ten-byte encoding of 2^64 - 1 was decoded.
C8_Witness ==
    /\ leb_pc = "done"
    /\ leb_val = WSub(Zero, ToWord(1))
    /\ Len(Encode(leb_val)) = 10
    /\ leb_out = leb_val

====
